---- MODULE Spec2Model ----
(***************************************************************************)
(* Multi-key parallel content generator (src/unnamed/part_000, lines       *)
(* 430-674): credential rotation, generation with retry, per-item          *)
(* processing, the bounded worker queue and the batch report.              *)
(*                                                                         *)
(* JavaScript runs one callback at a time: the code between two awaits is  *)
(* one atomic step.  Every action below is one such step: the resumption   *)
(* of an awaited promise followed by all the synchronous code up to the    *)
(* next await.                                                             *)
(***************************************************************************)
EXTENDS Integers, Sequences, FiniteSets, TLC

\* ---------------------------------------------------------------- bounds
\* Number of records the files API may return (prefix of ApiRecords).
MaxRecords == 4
\* Number of items of one batch for which some step may fail.
MaxFaulty == 1
\* Longest argument given to generateSafeFilename when it is called on its own.
MaxLen == 4

\* ------------------------------------------------------ program constants
BATCH_SIZE == 20
CONCURRENCY_LIMIT == 3
REQUEST_DELAY == 1500
MAX_RETRIES == 5
BACKOFF_BASE == 1000

Workers == 1..CONCURRENCY_LIMIT

\* ------------------------------------------------------------ characters
\* File names are sequences of one-character strings.
Upper == {"A", "B", "P"}
Lower == {"a", "b", "p", "o", "s", "t", "m", "d", "x", "e"}
Digit == {"1", "2"}
Space == {" "}

toLowerCaseChar(c) ==
  CASE c = "A" -> "a"
    [] c = "B" -> "b"
    [] c = "P" -> "p"
    [] OTHER -> c

\* \w of a JavaScript regular expression without the u flag: [A-Za-z0-9_]
IsWordChar(c) == c \in Upper \cup Lower \cup Digit \cup {"_"}

\* Faulty variant of IsKept: the first replace removes nothing.
IsKeptAll(c) == TRUE

\* [^\w\s-] is what the first replace removes; this is its complement.
IsKept(c) == IsWordChar(c) \/ c \in Space \/ c = "-"

RECURSIVE MapLower(_)
MapLower(s) ==
  IF s = <<>> THEN <<>> ELSE <<toLowerCaseChar(Head(s))>> \o MapLower(Tail(s))

\* .normalize('NFKD'): a precomposed letter becomes its base letter followed
\* by the combining mark; ASCII characters are their own decomposition.
\* "U+0301" stands for the one character COMBINING ACUTE ACCENT.
NFKDChar(c) == IF c = "é" THEN <<"e", "U+0301">> ELSE <<c>>

RECURSIVE NFKD(_)
NFKD(s) ==
  IF s = <<>> THEN <<>> ELSE NFKDChar(Head(s)) \o NFKD(Tail(s))

RECURSIVE RemoveSpecial(_)
RemoveSpecial(s) ==
  IF s = <<>> THEN <<>>
  ELSE (IF IsKept(Head(s)) THEN <<Head(s)>> ELSE <<>>) \o RemoveSpecial(Tail(s))

RECURSIVE TrimLeft(_)
TrimLeft(s) ==
  IF s # <<>> /\ Head(s) \in Space THEN TrimLeft(Tail(s)) ELSE s

RECURSIVE TrimRight(_)
TrimRight(s) ==
  IF s # <<>> /\ s[Len(s)] \in Space THEN TrimRight(SubSeq(s, 1, Len(s) - 1)) ELSE s

Trim(s) == TrimRight(TrimLeft(s))

\* .replace(/\s+/g, '-'): every maximal run of whitespace becomes one hyphen
RECURSIVE SpacesToHyphen(_)
SpacesToHyphen(s) ==
  IF s = <<>> THEN <<>>
  ELSE IF Head(s) \in Space THEN <<"-">> \o SpacesToHyphen(TrimLeft(s))
  ELSE <<Head(s)>> \o SpacesToHyphen(Tail(s))

\* .replace(/-+/g, '-'): every maximal run of hyphens becomes one hyphen
RECURSIVE CollapseHyphens(_)
CollapseHyphens(s) ==
  IF s = <<>> THEN <<>>
  ELSE IF Head(s) = "-" /\ Len(s) > 1 /\ s[2] = "-" THEN CollapseHyphens(Tail(s))
  ELSE <<Head(s)>> \o CollapseHyphens(Tail(s))

\* .replace(/^-|-$/g, ''): one hyphen at the start and one at the end
StripEdgeHyphens(s) ==
  LET a == IF s # <<>> /\ Head(s) = "-" THEN Tail(s) ELSE s
  IN  IF a # <<>> /\ a[Len(a)] = "-" THEN SubSeq(a, 1, Len(a) - 1) ELSE a

\* path.parse(f).name for a name without directory separators: the part
\* before the last dot, unless that dot is the first character or the
\* name is "..".
LastDot(s) ==
  LET dots == {i \in 1..Len(s) : s[i] = "."}
  IN  IF dots = {} THEN 0 ELSE CHOOSE i \in dots : \A j \in dots : j <= i

PathParseName(s) ==
  LET d == LastDot(s)
  IN  IF d <= 1 \/ s = <<".", ".">> THEN s ELSE SubSeq(s, 1, d - 1)

MDX == <<".", "m", "d", "x">>

generateSafeFilename(originalFilename) ==
  StripEdgeHyphens(
    CollapseHyphens(
      SpacesToHyphen(
        Trim(
          RemoveSpecial(
            NFKD(
              MapLower(
                PathParseName(originalFilename)))))))) \o MDX

\* ---------------------------------------------------------- environment
\* process.env restricted to the variables the program reads.  "" stands
\* for a variable that is unset or empty (both are falsy).
KeyVars == <<"GEMINI_API_KEY", "GEMINI_API_KEY_2", "GEMINI_API_KEY_3">>

Envs ==
  { [GEMINI_API_KEY |-> "k1", GEMINI_API_KEY_2 |-> "",   GEMINI_API_KEY_3 |-> "",   EMAIL_HOST |-> "smtp"],
    [GEMINI_API_KEY |-> "k1", GEMINI_API_KEY_2 |-> "k2", GEMINI_API_KEY_3 |-> "",   EMAIL_HOST |-> ""],
    [GEMINI_API_KEY |-> "k1", GEMINI_API_KEY_2 |-> "k2", GEMINI_API_KEY_3 |-> "k3", EMAIL_HOST |-> "smtp"],
    [GEMINI_API_KEY |-> "",   GEMINI_API_KEY_2 |-> "",   GEMINI_API_KEY_3 |-> "",   EMAIL_HOST |-> "smtp"],
    [GEMINI_API_KEY |-> "k1", GEMINI_API_KEY_2 |-> "",   GEMINI_API_KEY_3 |-> "k1", EMAIL_HOST |-> ""] }

\* Object.keys(process.env).filter(startsWith).sort().map(value).filter(Boolean)
RECURSIVE LoadKeys(_, _)
LoadKeys(e, i) ==
  IF i > Len(KeyVars) THEN <<>>
  ELSE (IF e[KeyVars[i]] # "" THEN <<e[KeyVars[i]]>> ELSE <<>>) \o LoadKeys(e, i + 1)

\* --------------------------------------------------------- API records
Rec(i, n, st) == [id |-> i, originalFilename |-> n, status |-> st]

ApiRecords ==
  << Rec(1, <<"P", "o", "s", "t", " ", "1", ".", "t", "x", "t">>, "Pending"),
     Rec(2, <<"p", "o", "s", "t", "-", "1", "!", ".", "m", "d">>, "Pending"),
     Rec(3, <<"b", "_", "2", ".", "t", "x", "t">>, "Pending"),
     Rec(4, <<"A", ".", "t", "x", "t">>, "Pending"),
     Rec(5, <<"a", "b">>, "Pending") >>


DoneRecord == Rec(9, <<"d", ".", "t", "x", "t">>, "AlreadyCopy")

\* safeFilename for every file name the API can return, computed once.
FileNames ==
  {ApiRecords[i].originalFilename : i \in 1..Len(ApiRecords)}
    \cup {DoneRecord.originalFilename}

safeFilename == [f \in FileNames |-> generateSafeFilename(f)]

\* What GET /api/files may answer: a prefix of ApiRecords, possibly after a
\* record that is not Pending.
Responses ==
  {SubSeq(ApiRecords, 1, n) : n \in 0..MaxRecords}
    \cup {<<DoneRecord>>, <<DoneRecord>> \o SubSeq(ApiRecords, 1, 1)}

\* Faulty variant of IsPending: the status is not looked at.
IsPendingAny(f) == TRUE

\* response.data.filter(f => f.status === 'Pending').slice(0, BATCH_SIZE)
IsPending(f) == f.status = "Pending"

Slice(s, n) == SubSeq(s, 1, IF Len(s) < n THEN Len(s) ELSE n)

PendingFiles(data) == Slice(SelectSeq(data, IsPending), BATCH_SIZE)

\* ------------------------------------------------------------- messages
PromptError == "prompt fetch failed"
EmptyResponse == "Empty response"
RateLimited == "status 429"
UpstreamError == "upstream error"
WriteError == "write failed"
PutError == "status update failed"
MailError == "sendMail failed"
BatchFetchError == "batch fetch failed"

GenErrors == {EmptyResponse, RateLimited, UpstreamError}

\* ---------------------------------------------------------------- state
VARIABLES
  env,        \* process.env
  apiKeys,    \* the credential list built at load time
  keyIndex,   \* the rotation cursor
  mainPc,     \* where run() is: load, fetchBatch, queue, reportMail, fatalMail, exited
  exitCode,   \* -1 while running, then the process exit status
  exitVia,    \* how the process ended
  response,   \* what GET /api/files will answer
  files,      \* runQueue's argument, pendingFiles
  index,      \* runQueue's claim cursor
  results,    \* runQueue's results list
  wpc,        \* per worker: idle, fetch, delay, gen, backoff, put, done
  cur,        \* per worker: currentIndex
  attempt,    \* per worker: generateWithRetry's attempt
  ai,         \* per worker: the credential of the client in use
  err,        \* per worker: the error caught by generateWithRetry
  slept,      \* per worker: the duration of the sleep in progress or last done
  disk,       \* GENERATED_DIR: set of <<file name, content>>
  writes,     \* per item: fs.writeFileSync calls that wrote its file
  puts,       \* per item: status-update PUTs issued
  faultyUsed, \* items for which some step has failed so far
  calls,      \* per item: upstream generateContent calls made
  fails,      \* per item: upstream calls that failed or answered empty
  genEnd,     \* per item: none, returned, thrown
  failedStep, \* per item: the step that failed: none, prompt, generate, write, put
  fatalError, \* the error caught by run()'s catch
  keyLog,     \* cursor values read and credentials handed out by getNextGemini, in order
  mails,      \* subjects handed to transporter.sendMail, in order
  summary,    \* what sendBatchEmail computed
  usedKey,    \* per worker: the credential of its latest attempt for the prompt in hand
  arg,        \* generateSafeFilename called on its own: the argument
  fnPc,       \* off, call, once, twice
  ret,        \* what generateSafeFilename(arg) returned
  retAgain,   \* what generateSafeFilename returned for ret without its extension
  gEnv,       \* scripts/generate.ts: process.env
  gResponse,  \* scripts/generate.ts: what GET /api/files will answer
  gPc,        \* scripts/generate.ts: off, start, fetchBatch, prompt, gen, put, pause, reportMail, fatalMail, exited
  gFetches,   \* scripts/generate.ts: batch-fetch requests issued
  gPending,   \* scripts/generate.ts: pendingFiles
  gPos,       \* scripts/generate.ts: position of the for loop in pendingFiles
  gSuccess,   \* scripts/generate.ts: results.success
  gFailed,    \* scripts/generate.ts: results.failed
  gDisk,      \* scripts/generate.ts: GENERATED_DIR
  gPuts,      \* scripts/generate.ts: status-update PUTs issued
  gMails,     \* scripts/generate.ts: subjects handed to transporter.sendMail
  gMailErrors,\* scripts/generate.ts: sendMail rejections logged by sendEmail
  gFatal,     \* scripts/generate.ts: the error caught by run()'s catch
  gExitCode   \* scripts/generate.ts: -1 while running, then the exit status

vars == <<env, apiKeys, keyIndex, mainPc, exitCode, exitVia, response, files,
          index, results, wpc, cur, attempt, ai, err, slept, disk, writes, puts,
          faultyUsed, calls, fails, genEnd, failedStep, fatalError, keyLog, mails,
          summary, usedKey, arg, fnPc, ret, retAgain, gEnv, gResponse, gPc,
          gFetches, gPending, gPos, gSuccess, gFailed, gDisk, gPuts, gMails,
          gMailErrors, gFatal, gExitCode>>

mainVars == <<mainPc, exitCode, exitVia, fatalError, mails, summary>>
envVars == <<env, apiKeys, response>>
workerVars == <<keyIndex, index, results, wpc, cur, attempt, ai, err, slept,
                disk, writes, puts, faultyUsed, calls, fails, genEnd, failedStep,
                keyLog, usedKey>>
fnVars == <<arg, fnPc, ret, retAgain>>
gVars == <<gEnv, gResponse, gPc, gFetches, gPending, gPos, gSuccess, gFailed,
           gDisk, gPuts, gMails, gMailErrors, gFatal, gExitCode>>

NoSummary == [computed |-> FALSE]
NoKey == "none"
NoError == "none"

\* scripts/generate.ts is not running.
GNotStarted ==
  /\ gEnv = [GEMINI_API_KEY |-> "", EMAIL |-> FALSE]
  /\ gResponse = <<>>
  /\ gPc = "off"
  /\ gFetches = 0
  /\ gPending = <<>>
  /\ gPos = 0
  /\ gSuccess = <<>>
  /\ gFailed = <<>>
  /\ gDisk = {}
  /\ gPuts = 0
  /\ gMails = <<>>
  /\ gMailErrors = 0
  /\ gFatal = NoError
  /\ gExitCode = -1

Init ==
  /\ env \in Envs
  /\ apiKeys = LoadKeys(env, 1)
  /\ keyIndex = 0
  /\ mainPc = "load"
  /\ exitCode = -1
  /\ exitVia = "none"
  /\ response \in Responses
  /\ files = <<>>
  /\ index = 0
  /\ results = <<>>
  /\ wpc = [w \in Workers |-> "idle"]
  /\ cur = [w \in Workers |-> 0]
  /\ attempt = [w \in Workers |-> 0]
  /\ ai = [w \in Workers |-> NoKey]
  /\ err = [w \in Workers |-> NoError]
  /\ slept = [w \in Workers |-> 0]
  /\ disk = {}
  /\ writes = <<>>
  /\ puts = <<>>
  /\ faultyUsed = 0
  /\ calls = <<>>
  /\ fails = <<>>
  /\ genEnd = <<>>
  /\ failedStep = <<>>
  /\ fatalError = NoError
  /\ keyLog = <<>>
  /\ mails = <<>>
  /\ summary = NoSummary
  /\ usedKey = [w \in Workers |-> NoKey]
  /\ arg = <<>>
  /\ fnPc = "off"
  /\ ret = <<>>
  /\ retAgain = <<>>
  /\ GNotStarted

\* ------------------------------------------------------ small code pieces
\* Faulty variants of getNextKeyIndex: the cursor is not advanced; the
\* cursor is advanced by two.
getNextKeyIndexStuck(ki, n) == ki
getNextKeyIndexSkip(ki, n) == (ki + 2) % n

\* keyIndex = (keyIndex + 1) % apiKeys.length
getNextKeyIndex(ki, n) == (ki + 1) % n

\* Faulty variant of loopCond: the loop ends one attempt before the catch
\* would throw.
loopCondShort(a) == a < MAX_RETRIES - 1

\* while (attempt < MAX_RETRIES)
loopCond(a) == a < MAX_RETRIES

\* Faulty variant of retryExhausted: gives up one attempt early.
retryExhaustedEarly(a) == a + 1 >= MAX_RETRIES

\* if (attempt >= MAX_RETRIES) throw error
retryExhausted(a) == a >= MAX_RETRIES

\* Faulty variant of backoffDelay: the same wait after every failure.
backoffDelayConstant(a) == BACKOFF_BASE

\* sleep(1000 * attempt)
backoffDelay(a) == BACKOFF_BASE * a

\* Faulty variant of queueDrained: stops one item before the end.
queueDrainedOffByOne(idx, n) == idx + 1 >= n

\* if (index >= files.length) break
queueDrained(idx, n) == idx >= n

\* return { success: true, name: safeFilename }
successOutcome(p, f) ==
  [success |-> TRUE, name |-> safeFilename[f.originalFilename],
   error |-> NoError, item |-> p]

\* return { success: false, name: file.originalFilename, error: err.message }
catchOutcome(p, f, e) ==
  [success |-> FALSE, name |-> f.originalFilename, error |-> e, item |-> p]

\* Faulty variant of writeFile: an existing file is not overwritten.
writeFileKeepFirst(d, name, p) ==
  IF \E x \in d : x[1] = name THEN d ELSE d \cup {<<name, p>>}

\* fs.writeFileSync(filePath, generatedContent): the content written for the
\* item at position p is named by p.
writeFile(d, name, p) == {x \in d : x[1] # name} \cup {<<name, p>>}

\* Faulty variant of allWorkersDone: the first worker to finish releases
\* runQueue (Promise.race).
anyWorkerDone(pcs) == \E w \in Workers : pcs[w] = "done"

\* await Promise.all(workers)
allWorkersDone(pcs) == \A w \in Workers : pcs[w] = "done"

\* if (!process.env.EMAIL_HOST) return
mailConfigured(e) == e.EMAIL_HOST # ""


\* ------------------------------------------------------------ the queue
\* Faulty variant of ClaimStep: the cursor is advanced by two.
ClaimStepTwo(st, w, n) ==
  IF queueDrained(st.index, n)
    THEN [st EXCEPT !.wpc[w] = "done"]
    ELSE [st EXCEPT !.wpc[w] = "fetch", !.cur[w] = st.index, !.index = st.index + 2]

\* Faulty variant of ClaimStep: the cursor is read but not advanced.
ClaimStepNoAdvance(st, w, n) ==
  IF queueDrained(st.index, n)
    THEN [st EXCEPT !.wpc[w] = "done"]
    ELSE [st EXCEPT !.wpc[w] = "fetch", !.cur[w] = st.index]

\* One pass through the head of worker()'s loop: break when the cursor has
\* reached the end, else claim the next index and start processFile, which
\* runs up to its first await (the prompt fetch).
ClaimStep(st, w, n) ==
  IF queueDrained(st.index, n)
    THEN [st EXCEPT !.wpc[w] = "done"]
    ELSE [st EXCEPT !.wpc[w] = "fetch", !.cur[w] = st.index, !.index = st.index + 1]

\* Array.from({ length: CONCURRENCY_LIMIT }, () => worker()): the workers
\* are started one after the other, each running up to its first await.
RECURSIVE StartWorkers(_, _, _)
StartWorkers(st, w, n) ==
  IF w > CONCURRENCY_LIMIT THEN st ELSE StartWorkers(ClaimStep(st, w, n), w + 1, n)

Item(w) == cur[w] + 1
File(w) == files[Item(w)]

\* Faulty variant of Finish: a worker stops at the first failed item.
FinishStopOnFailure(w, o) ==
  LET now == [index |-> index, wpc |-> wpc, cur |-> cur]
      st == IF o.success THEN ClaimStep(now, w, Len(files))
            ELSE [now EXCEPT !.wpc[w] = "done"]
  IN  /\ results' = Append(results, o)
      /\ index' = st.index
      /\ wpc' = st.wpc
      /\ cur' = st.cur
      /\ attempt' = [attempt EXCEPT ![w] = 0]
      /\ ai' = [ai EXCEPT ![w] = NoKey]
      /\ err' = [err EXCEPT ![w] = NoError]
      /\ slept' = [slept EXCEPT ![w] = 0]
      /\ usedKey' = [usedKey EXCEPT ![w] = NoKey]

\* processFile returned outcome o to worker w: results.push(result), then
\* the head of the loop again.
Finish(w, o) ==
  LET st == ClaimStep([index |-> index, wpc |-> wpc, cur |-> cur], w, Len(files))
  IN  /\ results' = Append(results, o)
      /\ index' = st.index
      /\ wpc' = st.wpc
      /\ cur' = st.cur
      /\ attempt' = [attempt EXCEPT ![w] = 0]
      /\ ai' = [ai EXCEPT ![w] = NoKey]
      /\ err' = [err EXCEPT ![w] = NoError]
      /\ slept' = [slept EXCEPT ![w] = 0]
      /\ usedKey' = [usedKey EXCEPT ![w] = NoKey]

\* The body of the retry loop up to its first await: getNextGemini(), then
\* sleep(REQUEST_DELAY).
BeginAttempt(w) ==
  /\ ai' = [ai EXCEPT ![w] = apiKeys[keyIndex + 1]]
  /\ usedKey' = [usedKey EXCEPT ![w] = apiKeys[keyIndex + 1]]
  /\ keyIndex' = getNextKeyIndex(keyIndex, Len(apiKeys))
  /\ keyLog' = Append(keyLog, [idx |-> keyIndex, key |-> apiKeys[keyIndex + 1]])
  /\ slept' = [slept EXCEPT ![w] = REQUEST_DELAY]
  /\ wpc' = [wpc EXCEPT ![w] = "delay"]

\* The environment lets a step of worker w's item fail only if the item has
\* had a failure before or fewer than MaxFaulty items have had one.
MayFail(w) == fails[Item(w)] > 0 \/ faultyUsed < MaxFaulty
CountFaulty(w) == IF fails[Item(w)] > 0 THEN faultyUsed ELSE faultyUsed + 1

\* axios.get(file.secureUrl) resolved: generateWithRetry starts with
\* attempt = 0 and enters its loop.
PromptFetched(w) ==
  /\ wpc[w] = "fetch"
  /\ loopCond(0)
  /\ attempt' = [attempt EXCEPT ![w] = 0]
  /\ BeginAttempt(w)
  /\ UNCHANGED <<index, results, cur, err, disk, writes, puts, faultyUsed, calls,
                 fails, genEnd, failedStep>>
  /\ UNCHANGED <<envVars, fnVars, gVars, files, mainVars>>

\* axios.get(file.secureUrl) rejected: processFile's catch.
PromptFailed(w) ==
  /\ wpc[w] = "fetch"
  /\ MayFail(w)
  /\ faultyUsed' = CountFaulty(w)
  /\ failedStep' = [failedStep EXCEPT ![Item(w)] = "prompt"]
  /\ Finish(w, catchOutcome(Item(w), File(w), PromptError))
  /\ UNCHANGED <<keyIndex, keyLog, disk, writes, puts, calls, fails, genEnd>>
  /\ UNCHANGED <<envVars, fnVars, gVars, files, mainVars>>

\* Faulty variant of DelayDone: the call is made with the credential the
\* cursor points at when the delay is over.
DelayDoneRereadKey(w) ==
  /\ wpc[w] = "delay"
  /\ wpc' = [wpc EXCEPT ![w] = "gen"]
  /\ ai' = [ai EXCEPT ![w] = apiKeys[keyIndex + 1]]
  /\ calls' = [calls EXCEPT ![Item(w)] = @ + 1]
  /\ UNCHANGED <<keyIndex, index, results, cur, attempt, err, slept, disk,
                 writes, puts, faultyUsed, fails, genEnd, failedStep, keyLog,
                 usedKey>>
  /\ UNCHANGED <<envVars, fnVars, gVars, files, mainVars>>

\* sleep(REQUEST_DELAY) is over: ai.models.generateContent is called.
DelayDone(w) ==
  /\ wpc[w] = "delay"
  /\ wpc' = [wpc EXCEPT ![w] = "gen"]
  /\ calls' = [calls EXCEPT ![Item(w)] = @ + 1]
  /\ UNCHANGED <<keyIndex, index, results, cur, attempt, ai, err, slept, disk,
                 writes, puts, faultyUsed, fails, genEnd, failedStep, keyLog,
                 usedKey>>
  /\ UNCHANGED <<envVars, fnVars, gVars, files, mainVars>>

\* generateContent resolved with a non-empty text: generateWithRetry
\* returns it, processFile writes the file and issues the status update.
GenSucceeded(w) ==
  /\ wpc[w] = "gen"
  /\ genEnd' = [genEnd EXCEPT ![Item(w)] = "returned"]
  /\ disk' = writeFile(disk, safeFilename[File(w).originalFilename], Item(w))
  /\ writes' = [writes EXCEPT ![Item(w)] = @ + 1]
  /\ puts' = [puts EXCEPT ![Item(w)] = @ + 1]
  /\ wpc' = [wpc EXCEPT ![w] = "put"]
  /\ attempt' = [attempt EXCEPT ![w] = 0]
  /\ ai' = [ai EXCEPT ![w] = NoKey]
  /\ slept' = [slept EXCEPT ![w] = 0]
  /\ usedKey' = [usedKey EXCEPT ![w] = NoKey]
  /\ UNCHANGED <<keyIndex, index, results, cur, err, faultyUsed, calls, fails,
                 failedStep, keyLog>>
  /\ UNCHANGED <<envVars, fnVars, gVars, files, mainVars>>

\* Faulty variant of GenSucceededWriteFailed: the status update is issued
\* although the write threw.
GenSucceededWriteFailedPutAnyway(w) ==
  /\ wpc[w] = "gen"
  /\ MayFail(w)
  /\ faultyUsed' = CountFaulty(w)
  /\ genEnd' = [genEnd EXCEPT ![Item(w)] = "returned"]
  /\ failedStep' = [failedStep EXCEPT ![Item(w)] = "write"]
  /\ puts' = [puts EXCEPT ![Item(w)] = @ + 1]
  /\ Finish(w, catchOutcome(Item(w), File(w), WriteError))
  /\ UNCHANGED <<keyIndex, keyLog, disk, writes, calls, fails>>
  /\ UNCHANGED <<envVars, fnVars, gVars, files, mainVars>>

\* The same, but fs.writeFileSync throws: processFile's catch.
GenSucceededWriteFailed(w) ==
  /\ wpc[w] = "gen"
  /\ MayFail(w)
  /\ faultyUsed' = CountFaulty(w)
  /\ genEnd' = [genEnd EXCEPT ![Item(w)] = "returned"]
  /\ failedStep' = [failedStep EXCEPT ![Item(w)] = "write"]
  /\ Finish(w, catchOutcome(Item(w), File(w), WriteError))
  /\ UNCHANGED <<keyIndex, keyLog, disk, writes, puts, calls, fails>>
  /\ UNCHANGED <<envVars, fnVars, gVars, files, mainVars>>

\* Faulty variant of GenFailed: a rate-limit rejection does not count as an
\* attempt.
GenFailedRateLimitFree(w, e) ==
  /\ wpc[w] = "gen"
  /\ MayFail(w)
  /\ faultyUsed' = CountFaulty(w)
  /\ attempt' = [attempt EXCEPT ![w] = IF e = RateLimited THEN @ ELSE @ + 1]
  /\ err' = [err EXCEPT ![w] = e]
  /\ ai' = [ai EXCEPT ![w] = NoKey]
  /\ slept' = [slept EXCEPT ![w] = backoffDelay(attempt'[w])]
  /\ fails' = [fails EXCEPT ![Item(w)] = @ + 1]
  /\ wpc' = [wpc EXCEPT ![w] = "backoff"]
  /\ UNCHANGED <<keyIndex, index, results, cur, disk, writes, puts, calls,
                 genEnd, failedStep, keyLog, usedKey>>
  /\ UNCHANGED <<envVars, fnVars, gVars, files, mainVars>>

\* generateContent rejected (e = RateLimited or UpstreamError) or answered
\* without text (e = EmptyResponse): the catch of the retry loop up to its
\* await of sleep(1000 * attempt).
GenFailed(w, e) ==
  /\ wpc[w] = "gen"
  /\ MayFail(w)
  /\ faultyUsed' = CountFaulty(w)
  /\ attempt' = [attempt EXCEPT ![w] = @ + 1]
  /\ err' = [err EXCEPT ![w] = e]
  /\ ai' = [ai EXCEPT ![w] = NoKey]
  /\ slept' = [slept EXCEPT ![w] = backoffDelay(attempt[w] + 1)]
  /\ fails' = [fails EXCEPT ![Item(w)] = @ + 1]
  /\ wpc' = [wpc EXCEPT ![w] = "backoff"]
  /\ UNCHANGED <<keyIndex, index, results, cur, disk, writes, puts, calls,
                 genEnd, failedStep, keyLog, usedKey>>
  /\ UNCHANGED <<envVars, fnVars, gVars, files, mainVars>>

\* sleep(1000 * attempt) is over and attempt < MAX_RETRIES: next attempt.
BackoffRetry(w) ==
  /\ wpc[w] = "backoff"
  /\ ~retryExhausted(attempt[w])
  /\ loopCond(attempt[w])
  /\ BeginAttempt(w)
  /\ err' = [err EXCEPT ![w] = NoError]
  /\ UNCHANGED <<index, results, cur, attempt, disk, writes, puts, faultyUsed,
                 calls, fails, genEnd, failedStep>>
  /\ UNCHANGED <<envVars, fnVars, gVars, files, mainVars>>

\* sleep(1000 * attempt) is over and attempt >= MAX_RETRIES: the error is
\* rethrown and caught by processFile.
BackoffThrow(w) ==
  /\ wpc[w] = "backoff"
  /\ retryExhausted(attempt[w])
  /\ genEnd' = [genEnd EXCEPT ![Item(w)] = "thrown"]
  /\ failedStep' = [failedStep EXCEPT ![Item(w)] = "generate"]
  /\ Finish(w, catchOutcome(Item(w), File(w), err[w]))
  /\ UNCHANGED <<keyIndex, keyLog, disk, writes, puts, faultyUsed, calls, fails>>
  /\ UNCHANGED <<envVars, fnVars, gVars, files, mainVars>>

\* axios.put resolved: the success outcome.
PutSucceeded(w) ==
  /\ wpc[w] = "put"
  /\ Finish(w, successOutcome(Item(w), File(w)))
  /\ UNCHANGED <<keyIndex, keyLog, disk, writes, puts, faultyUsed, calls, fails,
                 genEnd, failedStep>>
  /\ UNCHANGED <<envVars, fnVars, gVars, files, mainVars>>

\* axios.put rejected: processFile's catch.
PutFailed(w) ==
  /\ wpc[w] = "put"
  /\ MayFail(w)
  /\ faultyUsed' = CountFaulty(w)
  /\ failedStep' = [failedStep EXCEPT ![Item(w)] = "put"]
  /\ Finish(w, catchOutcome(Item(w), File(w), PutError))
  /\ UNCHANGED <<keyIndex, keyLog, disk, writes, puts, calls, fails, genEnd>>
  /\ UNCHANGED <<envVars, fnVars, gVars, files, mainVars>>


\* ------------------------------------------------------------- run()
ReportSubject == "Content Generation Report"
FailureSubject == "Batch Failed"

\* process.exit(code), or the end of the process after run() settled.
Exit(code, via) ==
  /\ mainPc' = "exited"
  /\ exitCode' = code
  /\ exitVia' = via

\* sendEmail(subject, ...) up to its await: nothing is sent without
\* EMAIL_HOST, else the message is handed to transporter.sendMail.
SendEmailStarts(subject) ==
  IF mailConfigured(env) THEN mails' = Append(mails, subject) ELSE mails' = mails

\* Faulty variant of Fatal: the catch ends without process.exit(1).
FatalNoExit(error) ==
  /\ fatalError' = error
  /\ SendEmailStarts(FailureSubject)
  /\ IF mailConfigured(env)
       THEN mainPc' = "fatalMail" /\ exitCode' = exitCode /\ exitVia' = exitVia
       ELSE Exit(0, "completed")

\* run()'s catch: sendEmail('Batch Failed', ...), then process.exit(1).
Fatal(error) ==
  /\ fatalError' = error
  /\ SendEmailStarts(FailureSubject)
  /\ IF mailConfigured(env)
       THEN mainPc' = "fatalMail" /\ exitCode' = exitCode /\ exitVia' = exitVia
       ELSE Exit(1, "processExit")

\* Faulty variant of Load: run() starts without the credential check.
LoadNoCheck ==
  /\ mainPc = "load"
  /\ mainPc' = "fetchBatch"
  /\ UNCHANGED <<exitCode, exitVia, fatalError, mails, summary, envVars, fnVars, gVars, files,
                 workerVars>>

\* Module load: the credential check, then run() up to its first await.
Load ==
  /\ mainPc = "load"
  /\ IF Len(apiKeys) = 0
       THEN Exit(1, "configError")
       ELSE mainPc' = "fetchBatch" /\ exitCode' = exitCode /\ exitVia' = exitVia
  /\ UNCHANGED <<fatalError, mails, summary, envVars, fnVars, gVars, files, workerVars>>

\* axios.get(EXTERNAL_API_URL) rejected.
BatchFetchFailed ==
  /\ mainPc = "fetchBatch"
  /\ Fatal(BatchFetchError)
  /\ UNCHANGED <<summary, envVars, fnVars, gVars, files, workerVars>>

\* axios.get(EXTERNAL_API_URL) resolved: filter, slice, and either the
\* early return or runQueue up to its await of Promise.all.
BatchFetched ==
  /\ mainPc = "fetchBatch"
  /\ LET pendingFiles == PendingFiles(response)
         n == Len(pendingFiles)
         st == StartWorkers([index |-> 0, wpc |-> wpc, cur |-> cur], 1, n)
     IN  IF n = 0
           THEN /\ Exit(0, "noPending")
                /\ UNCHANGED <<files, workerVars>>
           ELSE /\ mainPc' = "queue"
                /\ files' = pendingFiles
                /\ results' = <<>>
                /\ index' = st.index
                /\ wpc' = st.wpc
                /\ cur' = st.cur
                /\ calls' = [p \in 1..n |-> 0]
                /\ writes' = [p \in 1..n |-> 0]
                /\ puts' = [p \in 1..n |-> 0]
                /\ fails' = [p \in 1..n |-> 0]
                /\ genEnd' = [p \in 1..n |-> "none"]
                /\ failedStep' = [p \in 1..n |-> "none"]
                /\ UNCHANGED <<exitCode, exitVia, keyIndex, attempt, ai, err,
                               slept, disk, faultyUsed, keyLog, usedKey>>
  /\ UNCHANGED <<fatalError, mails, summary, envVars, fnVars, gVars>>

IsSuccess(r) == r.success

\* Faulty variant of IsFailure: every outcome is listed as failed.
IsFailureAll(r) == TRUE

IsFailure(r) == ~r.success

\* Faulty variant of BatchSummary: the failure count is the total.
BatchSummaryMiscount(success, failed, dir) ==
  [computed |-> TRUE,
   successCount |-> Len(success),
   failedCount |-> Len(success) + Len(failed),
   total |-> Len(success) + Len(failed),
   successLines |-> [i \in 1..Len(success) |-> success[i].name],
   failedLines |-> [i \in 1..Len(failed) |-> <<failed[i].name, failed[i].error>>],
   totalFiles |-> Cardinality({x[1] : x \in dir}),
   mdxFiles |-> Cardinality({x[1] : x \in dir})]

\* sendBatchEmail's subject and body, without the date.
BatchSummary(success, failed, dir) ==
  [computed |-> TRUE,
   successCount |-> Len(success),
   failedCount |-> Len(failed),
   total |-> Len(success) + Len(failed),
   successLines |-> [i \in 1..Len(success) |-> success[i].name],
   failedLines |-> [i \in 1..Len(failed) |-> <<failed[i].name, failed[i].error>>],
   totalFiles |-> Cardinality({x[1] : x \in dir}),
   mdxFiles |-> Cardinality({x[1] : x \in dir})]

\* Promise.all(workers) resolved: runQueue returns, run() partitions the
\* results and sendBatchEmail runs up to sendEmail's await.
QueueReturned ==
  /\ mainPc = "queue"
  /\ allWorkersDone(wpc)
  /\ summary' = BatchSummary(SelectSeq(results, IsSuccess),
                             SelectSeq(results, IsFailure), disk)
  /\ SendEmailStarts(ReportSubject)
  /\ IF mailConfigured(env)
       THEN mainPc' = "reportMail" /\ exitCode' = exitCode /\ exitVia' = exitVia
       ELSE Exit(0, "completed")
  /\ UNCHANGED <<fatalError, envVars, fnVars, gVars, files, workerVars>>

\* transporter.sendMail resolved for the report.
ReportMailSent ==
  /\ mainPc = "reportMail"
  /\ Exit(0, "completed")
  /\ UNCHANGED <<fatalError, mails, summary, envVars, fnVars, gVars, files, workerVars>>

\* transporter.sendMail rejected for the report: sendEmail has no catch,
\* the rejection reaches run()'s catch.
ReportMailFailed ==
  /\ mainPc = "reportMail"
  /\ Fatal(MailError)
  /\ UNCHANGED <<summary, envVars, fnVars, gVars, files, workerVars>>

\* transporter.sendMail resolved for 'Batch Failed': process.exit(1).
FatalMailSent ==
  /\ mainPc = "fatalMail"
  /\ Exit(1, "processExit")
  /\ UNCHANGED <<fatalError, mails, summary, envVars, fnVars, gVars, files, workerVars>>

\* transporter.sendMail rejected for 'Batch Failed': the rejection leaves
\* run()'s catch before process.exit(1); nothing handles the promise of
\* run(), and Node ends the process on the unhandled rejection with
\* status 1.
FatalMailFailed ==
  /\ mainPc = "fatalMail"
  /\ Exit(1, "unhandledRejection")
  /\ UNCHANGED <<fatalError, mails, summary, envVars, fnVars, gVars, files, workerVars>>

WorkerStep(w) ==
  \/ PromptFetched(w)
  \/ PromptFailed(w)
  \/ DelayDone(w)
  \/ GenSucceeded(w)
  \/ GenSucceededWriteFailed(w)
  \/ \E e \in GenErrors : GenFailed(w, e)
  \/ BackoffRetry(w)
  \/ BackoffThrow(w)
  \/ PutSucceeded(w)
  \/ PutFailed(w)

Next ==
  \/ Load
  \/ BatchFetchFailed
  \/ BatchFetched
  \/ \E w \in Workers : WorkerStep(w)
  \/ QueueReturned
  \/ ReportMailSent
  \/ ReportMailFailed
  \/ FatalMailSent
  \/ FatalMailFailed

Spec == Init /\ [][Next]_vars

\* Every awaited call and every sleep completes or fails: no step that is
\* enabled stays pending forever.
MainStep ==
  \/ Load \/ BatchFetchFailed \/ BatchFetched \/ QueueReturned
  \/ ReportMailSent \/ ReportMailFailed \/ FatalMailSent \/ FatalMailFailed

FairSpec ==
  /\ Spec
  /\ \A w \in Workers : WF_vars(WorkerStep(w))
  /\ WF_vars(MainStep)


\* ------------------------------------- generateSafeFilename on its own
\* The function applied to every string of at most MaxLen characters over
\* an alphabet with a lowercase letter, an uppercase letter, a digit, the
\* underscore, whitespace, the hyphen, the dot, another punctuation mark
\* and a precomposed letter.
Alphabet == {"a", "B", "1", "_", " ", "-", ".", "!", "é"}

Arguments == UNION {[1..n -> Alphabet] : n \in 0..MaxLen}

\* The run has not started and does not start.
RunNotStarted ==
  /\ env = CHOOSE e \in Envs : Len(LoadKeys(e, 1)) = 1
  /\ apiKeys = LoadKeys(env, 1)
  /\ keyIndex = 0
  /\ mainPc = "load"
  /\ exitCode = -1
  /\ exitVia = "none"
  /\ response = <<>>
  /\ files = <<>>
  /\ index = 0
  /\ results = <<>>
  /\ wpc = [w \in Workers |-> "idle"]
  /\ cur = [w \in Workers |-> 0]
  /\ attempt = [w \in Workers |-> 0]
  /\ ai = [w \in Workers |-> NoKey]
  /\ err = [w \in Workers |-> NoError]
  /\ slept = [w \in Workers |-> 0]
  /\ disk = {}
  /\ writes = <<>>
  /\ puts = <<>>
  /\ faultyUsed = 0
  /\ calls = <<>>
  /\ fails = <<>>
  /\ genEnd = <<>>
  /\ failedStep = <<>>
  /\ fatalError = NoError
  /\ keyLog = <<>>
  /\ mails = <<>>
  /\ summary = NoSummary
  /\ usedKey = [w \in Workers |-> NoKey]

FnInit ==
  /\ RunNotStarted
  /\ arg \in Arguments
  /\ fnPc = "call"
  /\ ret = <<>>
  /\ retAgain = <<>>
  /\ GNotStarted

\* A name without its last four characters, the extension.
WithoutExtension(name) == SubSeq(name, 1, Len(name) - Len(MDX))

\* generateSafeFilename(arg)
CallOnce ==
  /\ fnPc = "call"
  /\ ret' = generateSafeFilename(arg)
  /\ fnPc' = "once"
  /\ UNCHANGED <<arg, retAgain, envVars, files, mainVars, workerVars, gVars>>

\* generateSafeFilename applied to what it returned, minus the extension
CallAgain ==
  /\ fnPc = "once"
  /\ retAgain' = generateSafeFilename(WithoutExtension(ret))
  /\ fnPc' = "twice"
  /\ UNCHANGED <<arg, ret, envVars, files, mainVars, workerVars, gVars>>

FnNext == CallOnce \/ CallAgain

FnSpec == FnInit /\ [][FnNext]_vars


\* ------------------------------------------------ scripts/generate.ts
\* The single-key script: one sequential loop, no retry, its own sanitizer.
G_BATCH_SIZE == 10

GEnvs == {[GEMINI_API_KEY |-> k, EMAIL |-> m] : k \in {"", "k1"}, m \in BOOLEAN}

GKeyError == "GEMINI_API_KEY is not defined"
GEmptyContent == "Empty content generated"
GGenErrors == {GEmptyContent, RateLimited, UpstreamError}
GFailureSubject == "Content Generation Failed"

\* `Content Generation Report: ${success.length} Success, ${failed.length} Failed`
GReportSubject(ns, nf) == <<"Content Generation Report", ns, nf>>

\* file.originalFilename.replace(/[^a-z0-9]/gi, '_').toLowerCase() + '.mdx'
IsAlnum(c) == c \in Upper \cup Lower \cup Digit

RECURSIVE ReplaceNonAlnum(_)
ReplaceNonAlnum(s) ==
  IF s = <<>> THEN <<>>
  ELSE <<IF IsAlnum(Head(s)) THEN Head(s) ELSE "_">> \o ReplaceNonAlnum(Tail(s))

gSafeFilename == [f \in FileNames |-> MapLower(ReplaceNonAlnum(f)) \o MDX]

\* allFiles.filter(f => f.status === 'Pending').slice(0, BATCH_SIZE)
GPendingFiles(data) == Slice(SelectSeq(data, IsPending), G_BATCH_SIZE)

\* getGemini() throws
getGeminiThrows(e) == e.GEMINI_API_KEY = ""

GInit ==
  /\ RunNotStarted
  /\ arg = <<>> /\ fnPc = "off" /\ ret = <<>> /\ retAgain = <<>>
  /\ gEnv \in GEnvs
  /\ gResponse \in Responses
  /\ gPc = "start"
  /\ gFetches = 0
  /\ gPending = <<>>
  /\ gPos = 0
  /\ gSuccess = <<>>
  /\ gFailed = <<>>
  /\ gDisk = {}
  /\ gPuts = 0
  /\ gMails = <<>>
  /\ gMailErrors = 0
  /\ gFatal = NoError
  /\ gExitCode = -1

gOther == <<envVars, fnVars, files, mainVars, workerVars, gEnv, gResponse>>

\* process.exit(code), or the end of the process after run() settled.
GExit(code) == gPc' = "exited" /\ gExitCode' = code

\* sendEmail(subject, ...) up to its await of sendMail.
GSendEmailStarts(subject) ==
  IF gEnv.EMAIL THEN gMails' = Append(gMails, subject) ELSE gMails' = gMails

\* run()'s catch: sendEmail('Content Generation Failed', ...), process.exit(1)
GFatal(error) ==
  /\ gFatal' = error
  /\ GSendEmailStarts(GFailureSubject)
  /\ IF gEnv.EMAIL THEN gPc' = "fatalMail" /\ gExitCode' = gExitCode ELSE GExit(1)

\* The end of one pass of the for loop: the next file's prompt fetch, or
\* after the last file the report, with ns successes and nf failures.
GAdvance(ns, nf) ==
  IF gPos < Len(gPending)
    THEN /\ gPos' = gPos + 1
         /\ gPc' = "prompt"
         /\ UNCHANGED <<gMails, gExitCode>>
    ELSE /\ gPos' = gPos
         /\ GSendEmailStarts(GReportSubject(ns, nf))
         /\ IF gEnv.EMAIL THEN gPc' = "reportMail" /\ gExitCode' = gExitCode
            ELSE GExit(0)

\* The inner catch: results.failed.push(`${file.originalFilename}: ${error.message}`)
GItemFailed(e) ==
  /\ gFailed' = Append(gFailed, <<gPending[gPos].originalFilename, e>>)
  /\ GAdvance(Len(gSuccess), Len(gFailed) + 1)
  /\ UNCHANGED <<gFetches, gPending, gSuccess, gMailErrors, gFatal>>

\* Module load and run() up to its first await: the batch fetch is issued.
GStart ==
  /\ gPc = "start"
  /\ gFetches' = gFetches + 1
  /\ gPc' = "fetchBatch"
  /\ UNCHANGED <<gPending, gPos, gSuccess, gFailed, gDisk, gPuts, gMails,
                 gMailErrors, gFatal, gExitCode, gOther>>

\* axios.get(EXTERNAL_API_URL) rejected.
GBatchFetchFailed ==
  /\ gPc = "fetchBatch"
  /\ GFatal(BatchFetchError)
  /\ UNCHANGED <<gFetches, gPending, gPos, gSuccess, gFailed, gDisk, gPuts,
                 gMailErrors, gOther>>

\* axios.get(EXTERNAL_API_URL) resolved: filter, slice, the early return,
\* getGemini(), and the first pass of the loop up to its prompt fetch.
GBatchFetched ==
  /\ gPc = "fetchBatch"
  /\ LET pendingFiles == GPendingFiles(gResponse)
     IN  IF Len(pendingFiles) = 0
           THEN /\ GExit(0)
                /\ UNCHANGED <<gPending, gPos, gMails, gFatal>>
           ELSE /\ gPending' = pendingFiles
                /\ IF getGeminiThrows(gEnv)
                     THEN GFatal(GKeyError) /\ gPos' = gPos
                     ELSE /\ gPos' = 1
                          /\ gPc' = "prompt"
                          /\ UNCHANGED <<gMails, gFatal, gExitCode>>
  /\ UNCHANGED <<gFetches, gSuccess, gFailed, gDisk, gPuts, gMailErrors, gOther>>

\* axios.get(file.secureUrl) resolved: generateContent is called.
GPromptFetched ==
  /\ gPc = "prompt"
  /\ gPc' = "gen"
  /\ UNCHANGED <<gFetches, gPending, gPos, gSuccess, gFailed, gDisk, gPuts,
                 gMails, gMailErrors, gFatal, gExitCode, gOther>>

\* axios.get(file.secureUrl) rejected.
GPromptFailed ==
  /\ gPc = "prompt"
  /\ GItemFailed(PromptError)
  /\ UNCHANGED <<gDisk, gPuts, gOther>>

\* generateContent resolved with text: the file is written and the status
\* update is issued.
GGenSucceeded ==
  /\ gPc = "gen"
  /\ gDisk' = writeFile(gDisk, gSafeFilename[gPending[gPos].originalFilename], gPos)
  /\ gPuts' = gPuts + 1
  /\ gPc' = "put"
  /\ UNCHANGED <<gFetches, gPending, gPos, gSuccess, gFailed, gMails,
                 gMailErrors, gFatal, gExitCode, gOther>>

\* The same, but fs.writeFileSync throws.
GGenSucceededWriteFailed ==
  /\ gPc = "gen"
  /\ GItemFailed(WriteError)
  /\ UNCHANGED <<gDisk, gPuts, gOther>>

\* generateContent rejected, or resolved without text.
GGenFailed(e) ==
  /\ gPc = "gen"
  /\ GItemFailed(e)
  /\ UNCHANGED <<gDisk, gPuts, gOther>>

\* axios.put resolved: results.success.push, then the 2000 ms pause.
GPutSucceeded ==
  /\ gPc = "put"
  /\ gSuccess' = Append(gSuccess, gPending[gPos].originalFilename)
  /\ gPc' = "pause"
  /\ UNCHANGED <<gFetches, gPending, gPos, gFailed, gDisk, gPuts, gMails,
                 gMailErrors, gFatal, gExitCode, gOther>>

\* axios.put rejected.
GPutFailed ==
  /\ gPc = "put"
  /\ GItemFailed(PutError)
  /\ UNCHANGED <<gDisk, gPuts, gOther>>

\* The pause is over.
GPauseDone ==
  /\ gPc = "pause"
  /\ GAdvance(Len(gSuccess), Len(gFailed))
  /\ UNCHANGED <<gFetches, gPending, gSuccess, gFailed, gDisk, gPuts,
                 gMailErrors, gFatal, gOther>>

\* sendMail resolved for the report: run() returns.
GReportMailSent ==
  /\ gPc = "reportMail"
  /\ GExit(0)
  /\ UNCHANGED <<gFetches, gPending, gPos, gSuccess, gFailed, gDisk, gPuts,
                 gMails, gMailErrors, gFatal, gOther>>

\* sendMail rejected for the report: sendEmail logs it, run() returns.
GReportMailFailed ==
  /\ gPc = "reportMail"
  /\ gMailErrors' = gMailErrors + 1
  /\ GExit(0)
  /\ UNCHANGED <<gFetches, gPending, gPos, gSuccess, gFailed, gDisk, gPuts,
                 gMails, gFatal, gOther>>

\* sendMail resolved for the failure mail: process.exit(1).
GFatalMailSent ==
  /\ gPc = "fatalMail"
  /\ GExit(1)
  /\ UNCHANGED <<gFetches, gPending, gPos, gSuccess, gFailed, gDisk, gPuts,
                 gMails, gMailErrors, gFatal, gOther>>

\* sendMail rejected for the failure mail: logged, then process.exit(1).
GFatalMailFailed ==
  /\ gPc = "fatalMail"
  /\ gMailErrors' = gMailErrors + 1
  /\ GExit(1)
  /\ UNCHANGED <<gFetches, gPending, gPos, gSuccess, gFailed, gDisk, gPuts,
                 gMails, gFatal, gOther>>

GNext ==
  \/ GStart
  \/ GBatchFetchFailed
  \/ GBatchFetched
  \/ GPromptFetched
  \/ GPromptFailed
  \/ GGenSucceeded
  \/ GGenSucceededWriteFailed
  \/ \E e \in GGenErrors : GGenFailed(e)
  \/ GPutSucceeded
  \/ GPutFailed
  \/ GPauseDone
  \/ GReportMailSent
  \/ GReportMailFailed
  \/ GFatalMailSent
  \/ GFatalMailFailed

GSpec == GInit /\ [][GNext]_vars

\* ------------------------------------------------------------ properties
N == Len(files)
Items == 1..N
K == Len(apiKeys)

RECURSIVE SumTo(_, _)
SumTo(f, n) == IF n = 0 THEN 0 ELSE f[n] + SumTo(f, n - 1)

Range(s) == {s[i] : i \in 1..Len(s)}

OutcomesOf(p) == {i \in 1..Len(results) : results[i].item = p}

\* runQueue has returned: run() went on to the summary.
QueueHasReturned == summary.computed

Exited == mainPc = "exited"

\* C1: when runQueue returns, results holds exactly N outcomes and every
\* input item has exactly one outcome among them; before that no item has
\* more than one.
C1_OneOutcomePerItem ==
  /\ \A p \in Items : Cardinality(OutcomesOf(p)) <= 1
  /\ \A i \in 1..Len(results) : results[i].item \in Items
  /\ QueueHasReturned =>
       /\ Len(results) = N
       /\ \A p \in Items : Cardinality(OutcomesOf(p)) = 1

C1_Witness ==
  /\ QueueHasReturned
  /\ N = 4
  /\ \E i, j \in 1..Len(results) : results[i].success /\ ~results[j].success

\* C2: a generateWithRetry call that returns did so after exactly m + 1
\* upstream calls, m < MAX_RETRIES of them failed; one that throws made
\* exactly MAX_RETRIES upstream calls, all failed; no prompt ever gets more
\* than MAX_RETRIES upstream calls.
C2_RetryCallCount ==
  \A p \in Items :
    /\ calls[p] <= MAX_RETRIES
    /\ genEnd[p] = "returned" => fails[p] < MAX_RETRIES /\ calls[p] = fails[p] + 1
    /\ genEnd[p] = "thrown" => fails[p] = MAX_RETRIES /\ calls[p] = MAX_RETRIES

C2_Witness ==
  \E p \in Items : genEnd[p] = "returned" /\ fails[p] = MAX_RETRIES - 1

\* C3: the i-th call of getNextGemini, counted from 0 over all workers and
\* retries, reads cursor value i mod k and hands out credentials[i mod k].
C3_RoundRobin ==
  \A i \in 1..Len(keyLog) :
    /\ keyLog[i].idx = (i - 1) % K
    /\ keyLog[i].key = apiKeys[((i - 1) % K) + 1]

C3_Witness ==
  /\ K >= 2
  /\ Len(keyLog) > K
  /\ \E p, q \in Items : p # q /\ calls[p] > 0 /\ calls[q] > 0 /\ fails[p] > 0

\* Generation attempts started so far: the upstream calls made, plus the
\* attempts that are still in their inter-request delay.
AttemptsStarted ==
  SumTo(calls, N) + Cardinality({w \in Workers : wpc[w] = "delay"})

\* C4: once the credentials are loaded, keyIndex is in [0, k) and equals
\* the number of generation attempts started so far modulo k.
C4_CursorCountsAttempts ==
  K > 0 =>
    /\ keyIndex \in 0..(K - 1)
    /\ keyIndex = AttemptsStarted % K

C4_Witness ==
  /\ K = 3
  /\ AttemptsStarted > N
  /\ N >= 2
  /\ keyIndex = 1

\* C5: an item whose Outcome is a failure has had no output file written
\* and no status-update PUT issued.
C5_NoEffectsOnFailure ==
  \A i \in 1..Len(results) :
    ~results[i].success => writes[results[i].item] = 0 /\ puts[results[i].item] = 0

\* C6: a failed step of one item gives that item a failure Outcome and
\* nothing else: the other items get their own Outcome, a success when
\* none of their steps failed; no worker stops while items are unclaimed;
\* runQueue returns with all N outcomes.
C6_FailureIsPerItem ==
  /\ \A i \in 1..Len(results) :
       results[i].success <=> failedStep[results[i].item] = "none"
  /\ \A p \in Items : failedStep[p] # "none" => OutcomesOf(p) # {}
  /\ \A w \in Workers : wpc[w] = "done" => index = N
  /\ allWorkersDone(wpc) /\ N > 0 => \A p \in Items : OutcomesOf(p) # {}

C6_Witness ==
  /\ QueueHasReturned
  /\ N = 4
  /\ failedStep[1] = "generate"
  /\ \A p \in 2..4 : \E i \in OutcomesOf(p) : results[i].success

\* C7: once the queue has run to completion, no 'Batch Failed' message is
\* handed to the notifier and the process ends with status 0, even when
\* sending the summary fails.
C7_ReportFailureSwallowed ==
  QueueHasReturned =>
    /\ FailureSubject \notin Range(mails)
    /\ Exited => exitCode = 0

\* C8: after run()'s catch was entered, the failure notification has been
\* attempted (sent to the notifier when mail is configured) and the process
\* ends with a non-zero status, whatever became of the notification.
C8_FatalExitsNonZero ==
  fatalError # NoError =>
    /\ mailConfigured(env) => FailureSubject \in Range(mails)
    /\ mainPc \in {"fatalMail", "exited"}
    /\ Exited => exitCode # 0

C8_Witness ==
  /\ fatalError = BatchFetchError
  /\ Exited
  /\ exitVia = "unhandledRejection"

\* C9: every started runQueue eventually returns, and it has returned only
\* when the cursor is at files.length, all N outcomes are in results and
\* every worker has finished.
C9_QueueTerminates ==
  /\ (mainPc = "queue") ~> QueueHasReturned
  /\ [](QueueHasReturned =>
          index = N /\ Len(results) = N /\ \A w \in Workers : wpc[w] = "done")

C9_Witness ==
  /\ QueueHasReturned
  /\ N = 4
  /\ \E p \in Items : genEnd[p] = "thrown"

\* The case of C10: every failure of the batch is a generation that failed
\* for good.
OnlyGenerationFailures == \A p \in Items : failedStep[p] \in {"none", "generate"}
PermanentlyFailing == {p \in Items : failedStep[p] = "generate"}
Succeeded == {p \in Items : failedStep[p] = "none"}
FilesOnDisk == {x[1] : x \in disk}

SummaryMatches ==
  /\ summary.successCount = N - Cardinality(PermanentlyFailing)
  /\ summary.failedCount = Cardinality(PermanentlyFailing)
  /\ \A i \in 1..Len(summary.failedLines) : summary.failedLines[i][2] \in GenErrors

\* C10 as stated: N - f successes, f failures with their reasons, and
\* exactly N - f files in the output directory.
C10_Original ==
  QueueHasReturned /\ OnlyGenerationFailures =>
    /\ SummaryMatches
    /\ Cardinality(FilesOnDisk) = N - Cardinality(PermanentlyFailing)

\* C10 as amended: N - f successes, f failures with their reasons, and one
\* file per distinct sanitized name among the N - f successful items.
C10_Amended ==
  QueueHasReturned /\ OnlyGenerationFailures =>
    /\ SummaryMatches
    /\ FilesOnDisk =
         {safeFilename[files[p].originalFilename] : p \in Succeeded}
    /\ Cardinality(FilesOnDisk) <= N - Cardinality(PermanentlyFailing)

C10_Witness ==
  /\ QueueHasReturned
  /\ OnlyGenerationFailures
  /\ N = 4
  /\ PermanentlyFailing = {3}
  /\ Cardinality(FilesOnDisk) = 2

\* C11: when the batch fetch answers without any Pending item, run() returns
\* at once: no credential is taken and the cursor stays at 0, no upstream
\* call, no file, no status update, no summary and no e-mail, and the
\* process ends with status 0.
NoPendingInResponse == \A i \in 1..Len(response) : response[i].status # "Pending"

C11_EmptyBatchIsNoOp ==
  (/\ NoPendingInResponse
   /\ mainPc \notin {"load", "fetchBatch"}
   /\ exitVia # "configError"
   /\ fatalError = NoError)
  => /\ Exited /\ exitVia = "noPending" /\ exitCode = 0
     /\ files = <<>> /\ index = 0 /\ results = <<>>
     /\ keyLog = <<>> /\ keyIndex = 0
     /\ calls = <<>> /\ writes = <<>> /\ puts = <<>> /\ disk = {}
     /\ mails = <<>> /\ ~summary.computed
     /\ \A w \in Workers : wpc[w] = "idle"

C11_Witness ==
  /\ Exited /\ exitVia = "noPending"
  /\ Len(response) > 0
  /\ K >= 2
  /\ mailConfigured(env)

\* C12: when no GEMINI_API_KEY* variable has a non-empty value, the process
\* ends at module load with the configuration error: the batch fetch is
\* never issued, no item is claimed, no prompt fetch, upstream call, file
\* write, status update or e-mail happens.
NoCredentialInEnv == \A i \in 1..Len(KeyVars) : env[KeyVars[i]] = ""

C12_NoCredentialAborts ==
  NoCredentialInEnv =>
    /\ mainPc \in {"load", "exited"}
    /\ Exited => exitVia = "configError" /\ exitCode = 1
    /\ files = <<>> /\ index = 0 /\ results = <<>>
    /\ \A w \in Workers : wpc[w] = "idle"
    /\ keyLog = <<>> /\ calls = <<>> /\ writes = <<>> /\ puts = <<>>
    /\ disk = {} /\ mails = <<>> /\ ~summary.computed

C12_Witness ==
  /\ NoCredentialInEnv
  /\ Exited /\ exitVia = "configError"
  /\ \E i \in 1..Len(response) : response[i].status = "Pending"

\* C13: no item gets more than one status-update PUT; an item whose outcome
\* is a success got exactly one and an item whose outcome is a failure got
\* none; no item is taken up a second time in the run.
C13_PutIffSuccess ==
  /\ \A p \in Items : puts[p] <= 1 /\ Cardinality(OutcomesOf(p)) <= 1
  /\ \A i \in 1..Len(results) :
       puts[results[i].item] = IF results[i].success THEN 1 ELSE 0

\* C14: for every argument over the alphabet, generateSafeFilename returns
\* a name made of characters of [a-z0-9-] followed by ".mdx", whose part
\* before the extension neither starts nor ends with a hyphen, and applied
\* to that part it returns the same name.  (As claimed: the underscore is
\* not among the characters allowed.)
EndsWithMDX(name) ==
  /\ Len(name) >= Len(MDX)
  /\ SubSeq(name, Len(name) - Len(MDX) + 1, Len(name)) = MDX

NoEdgeHyphen(b) == b = <<>> \/ (b[1] # "-" /\ b[Len(b)] # "-")

SlugShape(name, allowed) ==
  /\ EndsWithMDX(name)
  /\ \A i \in 1..Len(WithoutExtension(name)) : name[i] \in allowed
  /\ NoEdgeHyphen(WithoutExtension(name))

C14_Original ==
  /\ fnPc \in {"once", "twice"} => SlugShape(ret, Lower \cup Digit \cup {"-"})
  /\ fnPc = "twice" => retAgain = ret

\* C14, amended: the same with the underscore among the characters allowed,
\* [a-z0-9_-].
C14_Amended ==
  /\ fnPc \in {"once", "twice"} => SlugShape(ret, Lower \cup Digit \cup {"-", "_"})
  /\ fnPc = "twice" => retAgain = ret

C14_Witness ==
  /\ fnPc = "twice"
  /\ Len(arg) = MaxLen
  /\ \E i \in 1..Len(arg) : arg[i] \in Upper
  /\ \E i \in 1..Len(arg) : arg[i] \in Space
  /\ "_" \in Range(WithoutExtension(ret))
  /\ "-" \in Range(WithoutExtension(ret))

\* C15: the credential list holds no value twice, whatever the environment;
\* once the load-time check has passed it is not empty, and it lists the
\* non-empty values in the order of the sorted variable names.
C15_NoDuplicateCredential ==
  /\ \A i, j \in 1..K : i # j => apiKeys[i] # apiKeys[j]
  /\ mainPc \notin {"load", "exited"} => K >= 1
  /\ apiKeys = LoadKeys(env, 1)

\* C16: the indices claimed so far are exactly 0..index-1 and index never
\* exceeds files.length; every claimed index is either held by exactly one
\* worker or has its outcome, never both and never twice, and no unclaimed
\* index is held; a worker that claims again claims the cursor's value,
\* which is greater than the index it held before; with fewer items than
\* workers the surplus workers end without a claim.
Holding(w) == wpc[w] \in {"fetch", "delay", "gen", "backoff", "put"}

Holders(p) == {w \in Workers : Holding(w) /\ Item(w) = p}

ClaimsAreThePrefix ==
  /\ index \in 0..N
  /\ \A p \in Items :
       Cardinality(Holders(p)) + Cardinality(OutcomesOf(p))
         = IF p <= index THEN 1 ELSE 0
  /\ \A w \in Workers : Holding(w) => Item(w) \in 1..index
  /\ (mainPc = "queue" /\ N < CONCURRENCY_LIMIT) =>
       \A w \in Workers : w > N => wpc[w] = "done" /\ cur[w] = 0

ClaimsIncrease ==
  \A w \in Workers :
    (wpc[w] \notin {"idle", "fetch"} /\ wpc'[w] = "fetch") =>
      /\ cur'[w] = index
      /\ cur'[w] > cur[w]
      /\ index' = index + 1

C16_ClaimsExact == [](ClaimsAreThePrefix) /\ [][ClaimsIncrease]_vars

C16_Witness ==
  /\ N = 4 /\ index = 4
  /\ \E w \in Workers : Holding(w) /\ cur[w] = 3 /\ wpc[w] = "gen"
  /\ \E w \in Workers : Holding(w) /\ cur[w] < 3

\* C17: the items claimed and still without outcome are never more than
\* CONCURRENCY_LIMIT, they are as many as the workers that hold an item
\* (one each), and the upstream calls made and not yet answered are never
\* more than CONCURRENCY_LIMIT.
OpenCalls(p) ==
  calls[p] - fails[p] - (IF genEnd[p] = "returned" THEN 1 ELSE 0)

C17_BoundedInFlight ==
  /\ index - Len(results) <= CONCURRENCY_LIMIT
  /\ index - Len(results) = Cardinality({w \in Workers : Holding(w)})
  /\ \A p \in Items : OpenCalls(p) \in {0, 1}
  /\ SumTo([p \in Items |-> OpenCalls(p)], N) <= CONCURRENCY_LIMIT
  /\ SumTo([p \in Items |-> OpenCalls(p)], N)
       = Cardinality({w \in Workers : wpc[w] = "gen"})

C17_Witness ==
  /\ N = 4 /\ index = 4 /\ Len(results) = 1
  /\ \A w \in Workers : wpc[w] = "gen"

\* C18: for every item the steps come in the order prompt fetch, upstream
\* calls, file write, status update, outcome: no upstream call for an item
\* whose prompt fetch is pending or failed, no write unless generation
\* returned, no status update without the write, nothing but the outcome
\* after a failed step, and once the file is written or the outcome is
\* there the earlier steps do not happen again.
StepsInOrder ==
  \A p \in Items :
    /\ (\E w \in Holders(p) : wpc[w] = "fetch") =>
         calls[p] = 0 /\ genEnd[p] = "none"
    /\ failedStep[p] = "prompt" => calls[p] = 0 /\ genEnd[p] = "none"
    /\ genEnd[p] = "returned" => calls[p] > fails[p]
    /\ genEnd[p] # "returned" => writes[p] = 0 /\ puts[p] = 0
    /\ failedStep[p] = "generate" => genEnd[p] = "thrown"
    /\ failedStep[p] = "write" => writes[p] = 0 /\ puts[p] = 0
    /\ puts[p] > 0 => writes[p] > 0
    /\ failedStep[p] = "put" => puts[p] = 1 /\ writes[p] = 1
    /\ failedStep[p] # "none" => OutcomesOf(p) # {}
    /\ (\E i \in OutcomesOf(p) : results[i].success) =>
         puts[p] = 1 /\ writes[p] = 1 /\ failedStep[p] = "none"

NoStepBack ==
  \A p \in Items :
    /\ writes[p] > 0 => calls'[p] = calls[p] /\ genEnd'[p] = genEnd[p]
    /\ puts[p] > 0 => writes'[p] = writes[p]
    /\ OutcomesOf(p) # {} =>
         /\ calls'[p] = calls[p] /\ writes'[p] = writes[p] /\ puts'[p] = puts[p]
         /\ genEnd'[p] = genEnd[p] /\ failedStep'[p] = failedStep[p]

C18_StepsInOrder == [](StepsInOrder) /\ [][NoStepBack]_vars

C18_Witness ==
  /\ QueueHasReturned
  /\ \E p \in Items : failedStep[p] = "write" /\ fails[p] > 0
  /\ \E i \in 1..Len(results) : results[i].success

\* C19: when the credential list holds at least two distinct values, a
\* retry of a prompt takes a credential different from the one of the
\* attempt that has just failed for the same prompt.
DistinctCredentials == Cardinality(Range(apiKeys))

RetryTakesAnotherKey ==
  \A w \in Workers :
    (wpc[w] = "backoff" /\ wpc'[w] = "delay") => usedKey'[w] # usedKey[w]

C19_RetryChangesCredential ==
  [][DistinctCredentials >= 2 => RetryTakesAnotherKey]_vars

\* C20: every attempt takes the credential at the cursor and advances the
\* cursor, then sleeps REQUEST_DELAY, then makes the upstream call with the
\* credential it took: every upstream call follows a delay of its own
\* attempt, there are as many credentials taken as calls made plus delays
\* running, and what other workers do to the cursor during the delay does
\* not change the credential of the call.
AttemptInOrder ==
  /\ \A w \in Workers :
       wpc[w] \in {"delay", "gen"} =>
         /\ ai[w] \in Range(apiKeys)
         /\ ai[w] = usedKey[w]
         /\ slept[w] = REQUEST_DELAY
  /\ Len(keyLog)
       = SumTo(calls, N) + Cardinality({w \in Workers : wpc[w] = "delay"})

AttemptSteps ==
  \A w \in Workers :
    /\ (wpc[w] # "delay" /\ wpc'[w] = "delay") =>
         /\ wpc[w] \in {"idle", "fetch", "backoff"}
         /\ ai'[w] = apiKeys[keyIndex + 1]
         /\ keyLog' = Append(keyLog, [idx |-> keyIndex, key |-> ai'[w]])
         /\ slept'[w] = REQUEST_DELAY
    /\ (wpc[w] # "gen" /\ wpc'[w] = "gen") =>
         /\ wpc[w] = "delay"
         /\ slept[w] = REQUEST_DELAY
         /\ ai'[w] = ai[w]
         /\ calls'[Item(w)] = calls[Item(w)] + 1
    /\ (wpc[w] = "delay" /\ wpc'[w] = "delay") => ai'[w] = ai[w]
    /\ (wpc[w] = "gen" /\ wpc'[w] = "gen") => ai'[w] = ai[w]

C20_DelayBeforeEveryCall == [](AttemptInOrder) /\ [][AttemptSteps]_vars

C20_Witness ==
  \E w \in Workers :
    /\ wpc[w] = "gen"
    /\ attempt[w] >= 1
    /\ DistinctCredentials >= 2
    /\ keyLog[Len(keyLog)].key # ai[w]
    /\ apiKeys[keyIndex + 1] # ai[w]

\* C21: after the i-th failed upstream call of a prompt the worker sleeps
\* exactly 1000 * i ms, i = 1..MAX_RETRIES; a failed call is always
\* followed by that sleep, and both the next attempt and the propagation
\* of the error after the last failed call start only when it is over.
InBackoff(w) == wpc[w] = "backoff"

BackoffIsLinear ==
  \A w \in Workers :
    InBackoff(w) =>
      /\ attempt[w] \in 1..MAX_RETRIES
      /\ attempt[w] = fails[Item(w)]
      /\ slept[w] = 1000 * attempt[w]

BackoffSteps ==
  \A p \in Items :
    /\ fails'[p] = fails[p] + 1 =>
         \E w \in Workers :
           /\ wpc[w] = "gen" /\ Item(w) = p
           /\ wpc'[w] = "backoff"
           /\ slept'[w] = 1000 * fails'[p]
    /\ (genEnd[p] = "none" /\ genEnd'[p] = "thrown") =>
         \E w \in Holders(p) :
           InBackoff(w) /\ slept[w] = 1000 * MAX_RETRIES
    /\ (calls[p] > 0 /\ \E w \in Holders(p) : wpc[w] # "delay" /\ wpc'[w] = "delay") =>
         \E w \in Holders(p) : InBackoff(w) /\ slept[w] = 1000 * calls[p]

C21_LinearBackoff == [](BackoffIsLinear) /\ [][BackoffSteps]_vars

C21_Witness ==
  \E w \in Workers :
    InBackoff(w) /\ attempt[w] = MAX_RETRIES /\ slept[w] = 5000

\* C22: an empty answer, a 429 rejection and any other rejection are handled
\* alike: each adds one to the attempt count and starts the backoff of
\* 1000 * attempt ms, and what follows the backoff depends on the attempt
\* count alone: below MAX_RETRIES the next attempt with the credential at
\* the cursor, at MAX_RETRIES the failure outcome carrying that error.
FailureCounted ==
  \A w \in Workers :
    (wpc[w] = "gen" /\ wpc'[w] = "backoff") =>
      /\ err'[w] \in GenErrors
      /\ attempt'[w] = attempt[w] + 1
      /\ slept'[w] = 1000 * (attempt[w] + 1)
      /\ keyIndex' = keyIndex
      /\ results' = results

AfterBackoff ==
  \A w \in Workers :
    (InBackoff(w) /\ wpc'[w] # "backoff") =>
      IF attempt[w] < MAX_RETRIES
        THEN /\ wpc'[w] = "delay"
             /\ attempt'[w] = attempt[w]
             /\ ai'[w] = apiKeys[keyIndex + 1]
             /\ results' = results
        ELSE /\ attempt[w] = MAX_RETRIES
             /\ Len(results') = Len(results) + 1
             /\ results'[Len(results')].item = Item(w)
             /\ ~results'[Len(results')].success
             /\ results'[Len(results')].error = err[w]

C22_FailureKindsAlike ==
  /\ [][FailureCounted /\ AfterBackoff]_vars
  /\ [](\A w \in Workers :
          InBackoff(w) => err[w] \in GenErrors /\ attempt[w] = calls[Item(w)])

C22_Witness ==
  /\ \E i \in 1..Len(results) :
       results[i].error = RateLimited /\ calls[results[i].item] = MAX_RETRIES
  /\ \E w \in Workers : wpc[w] \in {"gen", "put"}

\* C23: generateWithRetry ends in one of two ways: it returns after an
\* upstream call that answered with text, or it throws after MAX_RETRIES
\* failed calls with the error of the last of them; the loop is never left
\* by its condition, which would return undefined; so a success outcome
\* has a file written after a returned text, and a failure outcome caused
\* by generation carries one of the upstream errors.
LoopNeverFallsThrough ==
  \A w \in Workers :
    /\ wpc[w] = "fetch" => loopCond(0)
    /\ (InBackoff(w) /\ attempt[w] < MAX_RETRIES) => loopCond(attempt[w])
    /\ (InBackoff(w) /\ ~loopCond(attempt[w])) => attempt[w] >= MAX_RETRIES

ReturnsTextOrThrows ==
  \A p \in Items :
    /\ genEnd[p] \in {"none", "returned", "thrown"}
    /\ genEnd[p] = "returned" => calls[p] = fails[p] + 1
    /\ genEnd[p] = "thrown" =>
         /\ calls[p] = MAX_RETRIES /\ fails[p] = MAX_RETRIES
         /\ failedStep[p] = "generate"
    /\ \A i \in OutcomesOf(p) :
         /\ results[i].success => genEnd[p] = "returned" /\ writes[p] = 1
         /\ genEnd[p] = "thrown" =>
              ~results[i].success /\ results[i].error \in GenErrors
         /\ genEnd[p] # "none" \/ failedStep[p] = "prompt"

C23_Step ==
  \A w \in Workers :
    (Holding(w) /\ genEnd[Item(w)] = "none" /\ genEnd'[Item(w)] = "thrown") =>
      /\ InBackoff(w) /\ attempt[w] = MAX_RETRIES
      /\ results'[Len(results')].error = err[w]

C23_TwoOutcomes ==
  /\ [](LoopNeverFallsThrough /\ ReturnsTextOrThrows)
  /\ [][C23_Step]_vars

C23_Witness ==
  /\ \E i \in 1..Len(results) :
       /\ results[i].error = UpstreamError
       /\ genEnd[results[i].item] = "thrown"
  /\ \E i \in 1..Len(results) : results[i].success

\* C24: for a non-empty batch the summary is computed once, when every
\* worker has ended and all N outcomes are recorded, and is not changed
\* afterwards; its two lists are the successes and the failures of results,
\* so its counts add up to N; the report is handed to the mailer at most
\* once, and exactly once when mail is configured.
ReportsHanded == Cardinality({i \in 1..Len(mails) : mails[i] = ReportSubject})

SummaryAfterDrain ==
  /\ summary.computed =>
       /\ N > 0 /\ index = N /\ Len(results) = N
       /\ \A w \in Workers : wpc[w] = "done"
       /\ summary.successCount + summary.failedCount = N
       /\ summary.total = N
       /\ summary.successCount = Cardinality({i \in 1..N : results[i].success})
       /\ summary.failedCount = Cardinality({i \in 1..N : ~results[i].success})
       /\ Len(summary.successLines) = summary.successCount
       /\ Len(summary.failedLines) = summary.failedCount
       /\ ReportsHanded = IF mailConfigured(env) THEN 1 ELSE 0
  /\ ~summary.computed => ReportsHanded = 0
  /\ (N > 0 /\ Exited /\ fatalError = NoError) => summary.computed

SummaryComputedOnce ==
  /\ summary.computed => summary' = summary
  /\ summary' # summary => mainPc = "queue" /\ mainPc' # "queue"

C24_SummaryOnceAfterDrain ==
  [](SummaryAfterDrain) /\ [][SummaryComputedOnce]_vars

C24_Witness ==
  /\ summary.computed /\ Exited
  /\ N = 4 /\ summary.successCount = 3 /\ summary.failedCount = 1
  /\ mails = <<ReportSubject>>

\* C25: two different items of a batch whose names sanitize to the same slug
\* and whose outcomes are both successes have the same name in their
\* outcomes and one status update each, and the directory holds one file of
\* that name, with the content of one of the two; every write of an item
\* leaves its own content under its slug, so the file holds the content of
\* whichever item wrote last.
Slug(p) == safeFilename[files[p].originalFilename]

HasSuccess(p) == \E i \in OutcomesOf(p) : results[i].success

Colliding == {pq \in Items \X Items : pq[1] < pq[2] /\ Slug(pq[1]) = Slug(pq[2])}

BothSucceed ==
  \A pq \in Colliding :
    (HasSuccess(pq[1]) /\ HasSuccess(pq[2])) =>
      /\ \A i \in OutcomesOf(pq[1]) \cup OutcomesOf(pq[2]) :
           results[i].success /\ results[i].name = Slug(pq[1])
      /\ puts[pq[1]] = 1 /\ puts[pq[2]] = 1
      /\ writes[pq[1]] = 1 /\ writes[pq[2]] = 1
      /\ Cardinality({x \in disk : x[1] = Slug(pq[1])}) = 1
      /\ \E x \in disk : x[1] = Slug(pq[1]) /\ x[2] \in {pq[1], pq[2]}

LastWriteWins ==
  /\ \A p \in Items :
       writes'[p] = writes[p] + 1 =>
         /\ <<Slug(p), p>> \in disk'
         /\ \A x \in disk' : x[1] = Slug(p) => x[2] = p
  /\ disk' # disk => \E p \in Items : writes'[p] = writes[p] + 1

C25_CollisionLastWriterWins == [](BothSucceed) /\ [][LastWriteWins]_vars

\* Both colliding items succeeded and the file holds the content of the
\* item that comes first in the batch.
C25_Witness ==
  \E pq \in Colliding :
    /\ HasSuccess(pq[1]) /\ HasSuccess(pq[2])
    /\ <<Slug(pq[1]), pq[1]>> \in disk

\* C26: in scripts/generate.ts, with GEMINI_API_KEY unset or empty the
\* process ends with an error before the batch fetch is issued, whatever
\* the API would answer: no batch fetch, no pending list, and a non-zero
\* exit status.
C26_MissingKeyFatalAtStartup ==
  getGeminiThrows(gEnv) =>
    /\ gFetches = 0
    /\ gPc \in {"start", "exited"}
    /\ gPc = "exited" => gExitCode # 0

====
